---- MODULE Spec2Model ----
(***************************************************************************)
(* A model of spotilocal: the playlist scraper (spotify/spotify.py), the   *)
(* YouTube audio downloader (YT/youtube_downloader.py) and the             *)
(* orchestrator (spotilocal.py).                                           *)
(*                                                                         *)
(* Each component has its own specification over its own variables; the    *)
(* variables of the other components stay at their initial values.         *)
(*   SpecScrape : SpotifyPlaylistScraper.scrape_playlist                   *)
(*   SpecRetry  : YouTubeAudioDownloader.download_song_with_retries        *)
(*   SpecPool   : download_song tasks of one thread pool, one filesystem   *)
(*   SpecQuery  : the search query built from one scraped track            *)
(*   SpecRetryAny : the same function called with any max_retries          *)
(*   SpecScraper  : the scraper, through scrape_playlist or by method      *)
(*   SpecSong     : metadata and file name at the start of download_song   *)
(*   SpecPlaylist : _download_single_playlist and its thread pool          *)
(*   SpecDispatch : download_multiple_playlists and its process pool       *)
(* Library calls (selenium, ytmusicapi, pytubefix, pydub, mutagen,         *)
(* requests) are modelled by their outcome: each one either returns or     *)
(* raises, chosen nondeterministically.                                    *)
(***************************************************************************)
EXTENDS Integers, Sequences, FiniteSets, TLC

VARIABLES
    \* ---- scraper (spotify/spotify.py)
    scraper,     \* the SpotifyPlaylistScraper object and the browsers it launched
    page,        \* the tracklist rows the browser would render
    spc,         \* position inside scrape_playlist
    tracks,      \* the local `tracks` of scrape_playlist
    result,      \* what scrape_playlist returned
    stages,      \* the stages scrape_playlist entered, in order
    \* ---- download_song_with_retries (YT/youtube_downloader.py)
    rpc, attempt, max_retries, limit, events, rret,
    \* ---- download_song tasks sharing a filesystem (YT/youtube_downloader.py)
    tpc, song, fs, net, transcodes, writes, failed, tret,
    aret,        \* what each task's download_audio call returned
    \* ---- query construction (spotilocal.py)
    qpc, row, track, query,
    \* ---- scraper methods called one by one (spotify/spotify.py)
    calls,       \* the methods called on the scraper object, in order
    \* ---- download_multiple_playlists (spotilocal.py)
    dpc,            \* position of the dispatcher
    playlist_urls,  \* self.playlist_urls
    futures,        \* the submitted jobs, in submission order
    seen,           \* the jobs whose result the collection loop has taken
    caught,         \* the jobs whose exception the collection loop caught
    \* ---- _download_single_playlist (spotilocal.py)
    ppc,               \* position of the function
    extracted_tracks,  \* what scrape_playlist returned
    track_tasks,       \* the tasks handed to the thread pool, in order
    \* ---- one song's metadata and file name (YT/youtube_downloader.py)
    mpc, msong, mlyrics, mfile

scrapeVars == <<scraper, page, spc, tracks, result, stages>>
retryVars == <<rpc, attempt, max_retries, limit, events, rret>>
poolVars == <<tpc, song, fs, net, transcodes, writes, failed, tret, aret>>
queryVars == <<qpc, row, track, query>>
directVars == <<calls>>
dispatchVars == <<dpc, playlist_urls, futures, seen, caught>>
playlistVars == <<ppc, extracted_tracks, track_tasks>>
songVars == <<mpc, msong, mlyrics, mfile>>
vars == <<scrapeVars, retryVars, poolVars, queryVars, directVars, dispatchVars,
          playlistVars, songVars>>

(***************************************************************************)
(* Generic helpers                                                         *)
(***************************************************************************)
\* The frame of each component's actions: the other components do not move.
ScrapeOnly ==
    UNCHANGED <<retryVars, poolVars, queryVars, directVars, dispatchVars,
                playlistVars, songVars>>
RetryOnly ==
    UNCHANGED <<scrapeVars, poolVars, queryVars, directVars, dispatchVars,
                playlistVars, songVars>>
PoolOnly ==
    UNCHANGED <<scrapeVars, retryVars, queryVars, directVars, dispatchVars,
                playlistVars, songVars>>
QueryOnly ==
    UNCHANGED <<scrapeVars, retryVars, poolVars, directVars, dispatchVars,
                playlistVars, songVars>>
DispatchOnly ==
    UNCHANGED <<scrapeVars, retryVars, poolVars, queryVars, directVars,
                playlistVars, songVars>>
PlaylistOnly ==
    UNCHANGED <<scrapeVars, retryVars, poolVars, queryVars, directVars,
                dispatchVars, songVars>>
SongOnly ==
    UNCHANGED <<scrapeVars, retryVars, poolVars, queryVars, directVars,
                dispatchVars, playlistVars>>

SeqsUpTo(S, n) == UNION {[1..k -> S] : k \in 0..n}

----------------------------------------------------------------------------
(***************************************************************************)
(* The scraper: spotify/spotify.py                                         *)
(***************************************************************************)
\* Bounds
MaxRows == 3

NoDriver == 0
TrackIds == {"t1", "t2"}
\* A tracklist row: well formed (both XPath lookups succeed) or malformed
\* (find_element raises NoSuchElementException).
Rows == [ok : BOOLEAN, id : TrackIds]

\* __init__: self.driver = None; no browser launched yet.
\*   driver   : self.driver (NoDriver, or the id of a launched browser)
\*   quits    : per launched browser, how often quit() was invoked on it
\*   running  : per launched browser, whether its quit() has not yet returned
\*   raised   : whether the last method call ended by raising
\*   quitRaised : whether some driver.quit() call raised
\*   actions  : how many calls other than quit() were made on a browser
\*              (set_window_size, get, execute_script, find_elements)
ScraperInit ==
    [driver |-> NoDriver, quits |-> <<>>, running |-> <<>>,
     raised |-> FALSE, quitRaised |-> FALSE, actions |-> 0]

\* A close_driver that would forget the driver without quitting it.
close_driver_forget(s, qok) == [s EXCEPT !.driver = NoDriver, !.raised = FALSE]
\* close_driver: quit the driver and forget it; a quit() that raises leaves
\* self.driver set, since the assignment follows the call.
close_driver(s, qok) ==
    IF s.driver # NoDriver
    THEN IF qok
         THEN [s EXCEPT !.quits[s.driver] = @ + 1, !.running[s.driver] = FALSE,
                        !.driver = NoDriver, !.raised = FALSE]
         ELSE [s EXCEPT !.quits[s.driver] = @ + 1,
                        !.raised = TRUE, !.quitRaised = TRUE]
    ELSE [s EXCEPT !.raised = FALSE]

\* The handler of a failed stage: close_driver(), then `raise`. Either way the
\* method ends by raising (the original error, or the one quit() raised).
StageFailed(s, qok) == [close_driver(s, qok) EXCEPT !.raised = TRUE]

SetupOutcomes == {"ok", "no_browser", "browser_then_error"}
\* setup_driver: webdriver.Chrome(...) is assigned to self.driver, then
\* set_window_size; any error is logged and re-raised, without teardown.
setup_driver(s, o) ==
    LET n == Len(s.quits) + 1
        launchedS == [s EXCEPT !.quits = Append(@, 0), !.running = Append(@, TRUE),
                               !.driver = n, !.actions = @ + 1]
    IN CASE o = "ok" -> [launchedS EXCEPT !.raised = FALSE]
         [] o = "no_browser" -> [s EXCEPT !.raised = TRUE]
         [] o = "browser_then_error" -> [launchedS EXCEPT !.raised = TRUE]

\* A load_playlist that would launch a browser of its own when it has none.
load_playlist_lazy(s, ok, qok) ==
    LET s1 == IF s.driver = NoDriver THEN setup_driver(s, "ok") ELSE s
    IN IF ok THEN [s1 EXCEPT !.raised = FALSE, !.actions = @ + 1]
       ELSE StageFailed([s1 EXCEPT !.actions = @ + 1], qok)
\* load_playlist: raises at once without a driver; driver.get may raise, which
\* closes the driver and re-raises.
load_playlist(s, ok, qok) ==
    IF s.driver = NoDriver THEN [s EXCEPT !.raised = TRUE]
    ELSE IF ok THEN [s EXCEPT !.raised = FALSE, !.actions = @ + 1]
    ELSE StageFailed([s EXCEPT !.actions = @ + 1], qok)

\* adjust_zoom: as load_playlist, around execute_script.
adjust_zoom(s, ok, qok) ==
    IF s.driver = NoDriver THEN [s EXCEPT !.raised = TRUE]
    ELSE IF ok THEN [s EXCEPT !.raised = FALSE, !.actions = @ + 1]
    ELSE StageFailed([s EXCEPT !.actions = @ + 1], qok)

\* A row loop without the inner handler's `continue`: the first malformed row
\* would end it.
RECURSIVE ExtractRowsAbort(_, _)
ExtractRowsAbort(rows, acc) ==
    IF rows = <<>> \/ ~Head(rows).ok THEN acc
    ELSE ExtractRowsAbort(Tail(rows), Append(acc, Head(rows).id))

\* The per-row loop of extract_tracks: a row whose extraction raises is logged
\* and skipped (continue); a well-formed row appends one entry.
RECURSIVE ExtractRows(_, _)
ExtractRows(rows, acc) ==
    IF rows = <<>> THEN acc
    ELSE ExtractRows(Tail(rows),
                     IF Head(rows).ok THEN Append(acc, Head(rows).id) ELSE acc)

\* extract_tracks: the scraper after the call, and the list it returns (<<>>
\* when it raises). find_elements failing is the stage-level failure.
extract_tracks(s, rows, ok, qok) ==
    IF s.driver = NoDriver THEN [s |-> [s EXCEPT !.raised = TRUE], tracks |-> <<>>]
    ELSE IF ok THEN [s |-> [s EXCEPT !.raised = FALSE, !.actions = @ + 1],
                     tracks |-> ExtractRows(rows, <<>>)]
    ELSE [s |-> StageFailed([s EXCEPT !.actions = @ + 1], qok), tracks |-> <<>>]

\* What scrape_playlist returned: nothing yet, a list, or an exception.
NotReturned == [kind |-> "none", value |-> <<>>]
Returned(v) == [kind |-> "list", value |-> v]
Propagated == [kind |-> "exception", value |-> <<>>]

InitScraper ==
    /\ scraper = ScraperInit
    /\ page \in SeqsUpTo(Rows, MaxRows)
    /\ spc = "idle"
    /\ tracks = <<>>
    /\ result = NotReturned
    /\ stages = <<"idle">>

\* After a stage of the try block: go on, or (except Exception) return [].
\* The return value is held until the finally block has run.
AfterStage(next, stage) ==
    IF scraper'.raised
    THEN /\ spc' = "finally"
         /\ result' = Returned(<<>>)
         /\ stages' = stages
    ELSE /\ spc' = next
         /\ result' = result
         /\ stages' = Append(stages, stage)

\* scrape_playlist, line 140
ScrapeSetup ==
    /\ ScrapeOnly
    /\ spc = "idle"
    /\ \E o \in SetupOutcomes : scraper' = setup_driver(scraper, o)
    /\ AfterStage("load", "driver-ready")
    /\ UNCHANGED <<page, tracks>>

\* scrape_playlist, line 141
ScrapeLoad ==
    /\ ScrapeOnly
    /\ spc = "load"
    /\ \E ok \in BOOLEAN, qok \in BOOLEAN : scraper' = load_playlist(scraper, ok, qok)
    /\ AfterStage("zoom", "page-loaded")
    /\ UNCHANGED <<page, tracks>>

\* scrape_playlist, line 142
ScrapeZoom ==
    /\ ScrapeOnly
    /\ spc = "zoom"
    /\ \E ok \in BOOLEAN, qok \in BOOLEAN : scraper' = adjust_zoom(scraper, ok, qok)
    /\ AfterStage("extract", "zoomed")
    /\ UNCHANGED <<page, tracks>>

\* scrape_playlist, lines 143-144: tracks = self.extract_tracks(); return tracks
ScrapeExtract ==
    /\ ScrapeOnly
    /\ spc = "extract"
    /\ \E ok \in BOOLEAN, qok \in BOOLEAN :
         LET r == extract_tracks(scraper, page, ok, qok)
         IN /\ scraper' = r.s
            /\ tracks' = r.tracks
    /\ IF scraper'.raised
       THEN /\ result' = Returned(<<>>)
            /\ stages' = stages
       ELSE /\ result' = Returned(tracks')
            /\ stages' = Append(stages, "extracted")
    /\ spc' = "finally"
    /\ UNCHANGED page

\* scrape_playlist, lines 148-149: finally: self.close_driver(). An exception
\* raised in the finally block replaces the pending return.
ScrapeFinally ==
    /\ ScrapeOnly
    /\ spc = "finally"
    /\ \E qok \in BOOLEAN : scraper' = close_driver(scraper, qok)
    /\ result' = IF scraper'.raised THEN Propagated ELSE result
    /\ stages' = IF scraper'.driver = NoDriver THEN Append(stages, "closed") ELSE stages
    /\ spc' = "done"
    /\ UNCHANGED <<page, tracks>>

NextScrape ==
    \/ ScrapeSetup
    \/ ScrapeLoad
    \/ ScrapeZoom
    \/ ScrapeExtract
    \/ ScrapeFinally

----------------------------------------------------------------------------
(***************************************************************************)
(* The scraper's methods called one by one by a caller of its own:         *)
(* spotify/spotify.py lines 34-130                                         *)
(***************************************************************************)
\* Bounds
MaxCalls == 3

InitDirect ==
    /\ scraper = ScraperInit
    /\ page \in SeqsUpTo(Rows, MaxRows)
    /\ spc = "direct"
    /\ tracks = <<>>
    /\ result = NotReturned
    /\ stages = <<>>

\* A call of one method: the caller may make it whenever it has not made
\* MaxCalls calls yet.
DirectCall(method) ==
    /\ UNCHANGED <<retryVars, poolVars, queryVars, dispatchVars, playlistVars,
                   songVars>>
    /\ spc = "direct"
    /\ Len(calls) < MaxCalls
    /\ calls' = Append(calls, method)
    /\ UNCHANGED <<page, spc, result, stages>>

DirectSetup ==
    /\ DirectCall("setup_driver")
    /\ \E o \in SetupOutcomes : scraper' = setup_driver(scraper, o)
    /\ UNCHANGED tracks

DirectLoad ==
    /\ DirectCall("load_playlist")
    /\ \E ok \in BOOLEAN, qok \in BOOLEAN : scraper' = load_playlist(scraper, ok, qok)
    /\ UNCHANGED tracks

DirectZoom ==
    /\ DirectCall("adjust_zoom")
    /\ \E ok \in BOOLEAN, qok \in BOOLEAN : scraper' = adjust_zoom(scraper, ok, qok)
    /\ UNCHANGED tracks

DirectExtract ==
    /\ DirectCall("extract_tracks")
    /\ \E ok \in BOOLEAN, qok \in BOOLEAN :
         LET r == extract_tracks(scraper, page, ok, qok)
         IN /\ scraper' = r.s
            /\ tracks' = r.tracks

DirectClose ==
    /\ DirectCall("close_driver")
    /\ \E qok \in BOOLEAN : scraper' = close_driver(scraper, qok)
    /\ UNCHANGED tracks

NextDirect ==
    \/ DirectSetup
    \/ DirectLoad
    \/ DirectZoom
    \/ DirectExtract
    \/ DirectClose

----------------------------------------------------------------------------
(***************************************************************************)
(* download_song_with_retries: YT/youtube_downloader.py, lines 262-291     *)
(***************************************************************************)
\* Bounds
MaxRetries == 3
MaxLimit == 2
MaxResults == 2

\* The arguments tried: max_retries 0..MaxRetries, limit 0..MaxLimit.
RetryChoices == 0..MaxRetries
LimitChoices == 0..MaxLimit

\* Python's seq[:n]: the first n items, or all but the last -n when n < 0.
Slice(seq, n) ==
    LET k == IF n >= 0 THEN (IF n < Len(seq) THEN n ELSE Len(seq))
             ELSE (IF Len(seq) + n > 0 THEN Len(seq) + n ELSE 0)
    IN SubSeq(seq, 1, k)

\* What happened, in order: searches (with their outcome), backoff sleeps and
\* download_song calls (n: the 1-based rank of the result downloaded).
Event(kind, out, n) == [kind |-> kind, out |-> out, n |-> n]
Count(kind) == Cardinality({i \in 1..Len(events) : events[i].kind = kind})
CountOut(kind, out) ==
    Cardinality({i \in 1..Len(events) : events[i].kind = kind /\ events[i].out = out})

InitRetry ==
    /\ rpc = "loop"
    /\ attempt = 0
    /\ max_retries \in RetryChoices
    /\ limit \in LimitChoices
    /\ events = <<>>
    /\ rret = "running"

\* The calls with any max_retries, negative ones too: an int argument with
\* nothing in the function to keep it positive.
MaxBelowZero == 1
AnyRetryChoices == (0 - MaxBelowZero)..MaxRetries
InitRetryAny ==
    /\ rpc = "loop"
    /\ attempt = 0
    /\ max_retries \in AnyRetryChoices
    /\ limit \in LimitChoices
    /\ events = <<>>
    /\ rret = "running"

\* A loop tested at its end, which would always make a first attempt.
LoopGuardAtLeastOnce == attempt = 0 \/ attempt < max_retries
\* An off-by-one loop test, which would allow one more attempt.
LoopGuardInclusive == attempt <= max_retries
\* The test of `while attempt < max_retries`.
LoopGuard == attempt < max_retries

\* tasks = [(song, index, limit) for index, song in enumerate(results[:limit], 1)]
\* as the ranks of the songs kept.
Tasks(n) == Slice([i \in 1..n |-> i], limit)

\* A slip that would take the last of the tasks.
PickedLast(tasks) == tasks[Len(tasks)]
\* line 281: tasks[0]
Picked(tasks) == Head(tasks)

\* line 274: self.ytmusic.search raises ConnectionError; handler lines 285-287.
SearchConnectionError ==
    /\ RetryOnly
    /\ rpc = "loop" /\ LoopGuard
    /\ events' = Append(events, Event("search", "conn", 0))
    /\ attempt' = attempt + 1
    /\ rpc' = "sleep"
    /\ UNCHANGED <<max_retries, limit, rret>>

\* line 288: time.sleep(5), then back to the loop test.
BackoffSleep ==
    /\ RetryOnly
    /\ rpc = "sleep"
    /\ events' = Append(events, Event("sleep", "", 5))
    /\ rpc' = "loop"
    /\ UNCHANGED <<attempt, max_retries, limit, rret>>

\* A handler that would treat every exception as a connection error.
SearchOtherErrorRetried ==
    /\ RetryOnly
    /\ rpc = "loop" /\ LoopGuard
    /\ events' = Append(events, Event("search", "other", 0))
    /\ attempt' = attempt + 1
    /\ rpc' = "sleep"
    /\ UNCHANGED <<max_retries, limit, rret>>

\* line 274 raises anything else; handler lines 289-291: log and return.
SearchOtherError ==
    /\ RetryOnly
    /\ rpc = "loop" /\ LoopGuard
    /\ events' = Append(events, Event("search", "other", 0))
    /\ rpc' = "done"
    /\ rret' = "returned"
    /\ UNCHANGED <<attempt, max_retries, limit>>

\* lines 274-281: the search returns n results. None: warn and return. Some:
\* tasks[0] is taken; an empty `tasks` makes that an IndexError, which the
\* generic handler logs before returning.
SearchReturns ==
    /\ RetryOnly
    /\ rpc = "loop" /\ LoopGuard
    /\ \E n \in 0..MaxResults :
         /\ events' = Append(events, Event("search", "results", n))
         /\ IF n = 0 \/ Tasks(n) = <<>>
            THEN rpc' = "done" /\ rret' = "returned"
            ELSE rpc' = "download" /\ rret' = rret
    /\ UNCHANGED <<attempt, max_retries, limit>>

\* lines 281-283 and 289-291: self.download_song(tasks[0]) returns, or raises
\* (no ConnectionError escapes download_song); return in both cases.
DownloadFirst ==
    /\ RetryOnly
    /\ rpc = "download"
    /\ \E out \in {"ok", "error"} :
         events' = Append(events,
                          Event("download", out, Picked(Tasks(events[Len(events)].n))))
    /\ rpc' = "done"
    /\ rret' = "returned"
    /\ UNCHANGED <<attempt, max_retries, limit>>

\* line 272: the loop test fails; the function falls off its end.
RetriesExhausted ==
    /\ RetryOnly
    /\ rpc = "loop" /\ ~LoopGuard
    /\ rpc' = "done"
    /\ rret' = "returned"
    /\ UNCHANGED <<attempt, max_retries, limit, events>>

NextRetry ==
    \/ SearchConnectionError
    \/ BackoffSleep
    \/ SearchOtherError
    \/ SearchReturns
    \/ DownloadFirst
    \/ RetriesExhausted

----------------------------------------------------------------------------
(***************************************************************************)
(* download_song tasks of one thread pool: YT/youtube_downloader.py        *)
(***************************************************************************)
\* Bounds
NTasks == 2

TaskIds == 1..NTasks

\* Strings are sequences of one-character strings.
\* A character class that misses the vertical bar.
UnsafeNoBar == {"\\", "/", "*", "?", ":", "\"", "<", ">"}
\* r'[\\/*?:"<>|]', lines 69-70
Unsafe == {"\\", "/", "*", "?", ":", "\"", "<", ">", "|"}

\* re.sub(r'[\\/*?:"<>|]', "", s)
RECURSIVE Sanitize(_)
Sanitize(s) ==
    IF s = <<>> THEN <<>>
    ELSE IF Head(s) \in Unsafe THEN Sanitize(Tail(s))
    ELSE <<Head(s)>> \o Sanitize(Tail(s))

\* _get_safe_filename: f"{safe_title} - {safe_artist}.mp3"
get_safe_filename(title, artist) ==
    Sanitize(title) \o <<" ", "-", " ">> \o Sanitize(artist) \o <<".", "m", "p", "3">>

\* download_audio, line 139: temp_filename = expected_filename + ".temp"
TempName(filename) == filename \o <<".", "t", "e", "m", "p">>

\* The search results the tasks are made from: a title, an artist and
\* possibly a videoId.
Titles == {<<"a">>, <<"a", "?">>, <<"b">>}
Artists == {<<"x">>}
Songs == [title : Titles, artist : Artists, videoId : BOOLEAN]

\* download_song, lines 94-95: the expected file of a task (all tasks of a
\* downloader share self.output_path).
Path(t) == get_safe_filename(song[t].title, song[t].artist)

LyricsOutcomes == {"watch_error", "no_ref", "lyrics_error", "lyrics"}
\* A _fetch_lyrics without its handler: a failing lookup leaves the method.
fetch_lyrics_unguarded(videoId, o) ==
    IF ~videoId THEN [calls |-> <<>>, text |-> "", raised |-> FALSE]
    ELSE CASE o = "watch_error" ->
                [calls |-> <<"get_watch_playlist">>, text |-> "none",
                 raised |-> TRUE]
           [] o = "no_ref" ->
                [calls |-> <<"get_watch_playlist">>, text |-> "", raised |-> FALSE]
           [] o = "lyrics_error" ->
                [calls |-> <<"get_watch_playlist", "get_lyrics">>,
                 text |-> "none", raised |-> TRUE]
           [] o = "lyrics" ->
                [calls |-> <<"get_watch_playlist", "get_lyrics">>,
                 text |-> "lyrics", raised |-> FALSE]
\* _fetch_lyrics: the ytmusic calls made, the text returned and whether an
\* exception left the method. An absent id returns at once (lines 333-334);
\* a failure of either lookup is caught (lines 345-347).
fetch_lyrics(videoId, o) ==
    IF ~videoId THEN [calls |-> <<>>, text |-> "", raised |-> FALSE]
    ELSE CASE o = "watch_error" ->
                [calls |-> <<"get_watch_playlist">>, text |-> "", raised |-> FALSE]
           [] o = "no_ref" ->
                [calls |-> <<"get_watch_playlist">>, text |-> "", raised |-> FALSE]
           [] o = "lyrics_error" ->
                [calls |-> <<"get_watch_playlist", "get_lyrics">>, text |-> "",
                 raised |-> FALSE]
           [] o = "lyrics" ->
                [calls |-> <<"get_watch_playlist", "get_lyrics">>,
                 text |-> "lyrics", raised |-> FALSE]

InitPool ==
    /\ tpc = [t \in TaskIds |-> "start"]
    /\ song \in [TaskIds -> Songs]
    /\ fs \in {{}, {get_safe_filename(<<"a">>, <<"x">>)}}
    /\ net = [t \in TaskIds |-> <<>>]
    /\ transcodes = [t \in TaskIds |-> 0]
    /\ writes = <<>>
    /\ failed = [t \in TaskIds |-> "none"]
    /\ tret = [t \in TaskIds |-> "running"]
    /\ aret = [t \in TaskIds |-> "not_called"]

\* download_song, lines 84-91: the metadata record is built first, and with
\* it the lyrics are fetched.
BuildMetadata(t) ==
    /\ PoolOnly
    /\ tpc[t] = "start"
    /\ \E o \in LyricsOutcomes :
         net' = [net EXCEPT ![t] = @ \o fetch_lyrics(song[t].videoId, o).calls]
    /\ tpc' = [tpc EXCEPT ![t] = "check"]
    /\ UNCHANGED <<song, fs, transcodes, writes, failed, tret, aret>>

\* A check that would also turn a task away while another task is at work on
\* the same path (a reservation taken with the check).
FileExistsOrClaimed(t) ==
    \/ Path(t) \in fs
    \/ \E u \in TaskIds \ {t} :
         Path(u) = Path(t) /\ tpc[u] \in {"resolve", "convert", "tag"}
\* os.path.exists(expected_filepath), line 98
FileExists(t) == Path(t) \in fs

\* download_song, lines 98-106: skip when the file exists, else go on.
CheckExists(t) ==
    /\ PoolOnly
    /\ tpc[t] = "check"
    /\ IF FileExists(t)
       THEN /\ tpc' = [tpc EXCEPT ![t] = "done"]
            /\ tret' = [tret EXCEPT ![t] = "exists"]
       ELSE /\ tpc' = [tpc EXCEPT ![t] = "resolve"]
            /\ tret' = tret
    /\ UNCHANGED <<song, fs, net, transcodes, writes, failed, aret>>

\* What download_song returns once download_audio has returned (line 109):
\* the value of download_audio is not looked at.
DownloadSongReturn(mp3) == "success"

\* A download_audio whose handler lets the failure go on to its caller.
EndRaised(t, why) ==
    /\ tpc' = [tpc EXCEPT ![t] = "done"]
    /\ failed' = [failed EXCEPT ![t] = why]
    /\ aret' = [aret EXCEPT ![t] = "raised"]
    /\ tret' = [tret EXCEPT ![t] = "raised"]
\* A task ends inside download_audio at stage `why`: download_audio returns
\* None (lines 133-135, 156-158) and download_song its result.
EndFailed(t, why) ==
    /\ tpc' = [tpc EXCEPT ![t] = "done"]
    /\ failed' = [failed EXCEPT ![t] = why]
    /\ aret' = [aret EXCEPT ![t] = "None"]
    /\ tret' = [tret EXCEPT ![t] = DownloadSongReturn("None")]

\* download_audio, lines 130-144: resolve the audio stream and download it to
\* the temporary name.
ResolveAndDownload(t) ==
    /\ PoolOnly
    /\ tpc[t] = "resolve"
    /\ net' = [net EXCEPT ![t] = Append(@, "stream")]
    /\ \E o \in {"ok", "no_stream", "error"} :
         IF o = "ok"
         THEN /\ fs' = fs \cup {TempName(Path(t))}
              /\ tpc' = [tpc EXCEPT ![t] = "convert"]
              /\ UNCHANGED <<failed, tret, aret>>
         ELSE /\ EndFailed(t, "stream")
              /\ fs' = fs
    /\ UNCHANGED <<song, transcodes, writes>>

\* A handler that would remove the partial file of a failed export.
AfterFailedExportCleaned(t) == fs \ {Path(t)}
\* _convert_to_mp3, lines 177 and 181-183: a failing export leaves the file it
\* opened at the final path; nothing removes it (nor the temporary file).
AfterFailedExport(t) == fs \cup {Path(t)}

\* download_audio, line 147 and _convert_to_mp3: read the temporary file
\* (which fails when another task has removed it), export to the final path
\* (a failing export leaves the file it opened), remove the temporary file.
\* Tasks whose names sanitize alike share the temporary name too.
Convert(t) ==
    /\ PoolOnly
    /\ tpc[t] = "convert"
    /\ \E o \in {"ok", "decode_error", "export_error"} :
         /\ (TempName(Path(t)) \notin fs) => o = "decode_error"
         /\ CASE o = "ok" ->
                   /\ fs' = (fs \cup {Path(t)}) \ {TempName(Path(t))}
                   /\ transcodes' = [transcodes EXCEPT ![t] = @ + 1]
                   /\ writes' = Append(writes, [task |-> t, path |-> Path(t)])
                   /\ tpc' = [tpc EXCEPT ![t] = "tag"]
                   /\ UNCHANGED <<failed, tret, aret>>
              [] o = "decode_error" ->
                   /\ EndFailed(t, "transcode")
                   /\ UNCHANGED <<fs, transcodes, writes>>
              [] o = "export_error" ->
                   /\ fs' = AfterFailedExport(t)
                   /\ transcodes' = [transcodes EXCEPT ![t] = @ + 1]
                   /\ writes' = Append(writes, [task |-> t, path |-> Path(t)])
                   /\ EndFailed(t, "transcode")
    /\ UNCHANGED <<song, net>>

\* download_audio, lines 149-154 and _add_metadata: fetch the thumbnail (a
\* failure is swallowed), save the tags (a failure is re-raised to
\* download_audio, which returns None).
AddMetadata(t) ==
    /\ PoolOnly
    /\ tpc[t] = "tag"
    /\ net' = [net EXCEPT ![t] = Append(@, "thumbnail")]
    /\ \E saved \in BOOLEAN :
         IF saved
         THEN /\ tpc' = [tpc EXCEPT ![t] = "done"]
              /\ aret' = [aret EXCEPT ![t] = "mp3_file"]
              /\ tret' = [tret EXCEPT ![t] = DownloadSongReturn("mp3_file")]
              /\ failed' = failed
         ELSE EndFailed(t, "tagsave")
    /\ UNCHANGED <<song, fs, transcodes, writes>>

NextPool ==
    \/ \E t \in TaskIds : BuildMetadata(t)
    \/ \E t \in TaskIds : CheckExists(t)
    \/ \E t \in TaskIds : ResolveAndDownload(t)
    \/ \E t \in TaskIds : Convert(t)
    \/ \E t \in TaskIds : AddMetadata(t)

----------------------------------------------------------------------------
(***************************************************************************)
(* The search query of one scraped track: spotify.py lines 99-112 and      *)
(* spotilocal.py lines 45-51                                               *)
(***************************************************************************)
\* Bounds
MaxNameLen == 2
MaxArtists == 2

\* The characters of the element texts; ", " is the two characters "," " ".
Chars == {"a", " "}
Texts == SeqsUpTo(Chars, MaxNameLen)
Sep == <<",", " ">>

\* str.strip(): drop leading and trailing whitespace.
RECURSIVE LStrip(_)
LStrip(s) == IF s # <<>> /\ Head(s) = " " THEN LStrip(Tail(s)) ELSE s
RECURSIVE RStrip(_)
RStrip(s) ==
    IF s # <<>> /\ s[Len(s)] = " " THEN RStrip(SubSeq(s, 1, Len(s) - 1)) ELSE s
Strip(s) == RStrip(LStrip(s))

\* sep.join(items), for a sequence of strings.
RECURSIVE Join(_, _)
Join(items, sep) ==
    IF items = <<>> THEN <<>>
    ELSE IF Len(items) = 1 THEN items[1]
    ELSE items[1] \o sep \o Join(Tail(items), sep)

\* Iterating a Python str yields its characters, each a str of length one.
IterStr(s) == [i \in 1..Len(s) |-> <<s[i]>>]

\* extract_tracks, lines 99-112: the entry made from one well-formed row.
ExtractTrack(r) ==
    [song_name |-> Strip(r.song),
     artists |-> Join([i \in 1..Len(r.links) |-> Strip(r.links[i])], Sep)]

\* _download_single_playlist.download_song, lines 46-48. track['artists'] is
\* the str extract_tracks made, and ', '.join iterates over it.
SearchQuery(tr) ==
    LET song_name == tr.song_name
        artists == Join(IterStr(tr.artists), Sep)
    IN song_name \o Sep \o artists

NoTrack == [song_name |-> <<>>, artists |-> <<>>]

InitQuery ==
    /\ qpc = "row"
    /\ row \in [song : Texts, links : SeqsUpTo(Texts, MaxArtists)]
    /\ track = NoTrack
    /\ query = <<>>

\* The scraper reads the row.
QueryScrape ==
    /\ QueryOnly
    /\ qpc = "row"
    /\ track' = ExtractTrack(row)
    /\ qpc' = "scraped"
    /\ UNCHANGED <<row, query>>

\* The orchestrator builds the query and calls download_song_with_retries.
QueryBuild ==
    /\ QueryOnly
    /\ qpc = "scraped"
    /\ query' = SearchQuery(track)
    /\ qpc' = "searched"
    /\ UNCHANGED <<row, track>>

NextQuery ==
    \/ QueryScrape
    \/ QueryBuild

----------------------------------------------------------------------------
(***************************************************************************)
(* download_multiple_playlists: spotilocal.py lines 61-79                  *)
(***************************************************************************)
\* Bounds
MaxPlaylists == 3
Workers == 2

Urls == {"p", "q"}

InitDispatch ==
    /\ dpc = "submit"
    /\ playlist_urls \in SeqsUpTo(Urls, MaxPlaylists)
    /\ futures = <<>>
    /\ seen = {}
    /\ caught = {}

JobIds == 1..Len(futures)
Running == {j \in JobIds : futures[j].state = "running"}
Finished == {j \in JobIds : futures[j].state \in {"returned", "raised"}}

\* lines 70-73: executor.submit, once for each playlist URL in list order.
Submit ==
    /\ DispatchOnly
    /\ dpc = "submit"
    /\ Len(futures) < Len(playlist_urls)
    /\ futures' = Append(futures, [url |-> playlist_urls[Len(futures) + 1],
                                   state |-> "pending", runs |-> 0])
    /\ UNCHANGED <<dpc, playlist_urls, seen, caught>>

\* line 75: the list is complete, the collection loop starts.
StartCollecting ==
    /\ DispatchOnly
    /\ dpc = "submit"
    /\ Len(futures) = Len(playlist_urls)
    /\ dpc' = "collect"
    /\ UNCHANGED <<playlist_urls, futures, seen, caught>>

\* A worker process of the pool takes a pending job and calls
\* _download_single_playlist.
JobStart(j) ==
    /\ DispatchOnly
    /\ futures[j].state = "pending"
    /\ Cardinality(Running) < Workers
    /\ futures' = [futures EXCEPT ![j].state = "running", ![j].runs = @ + 1]
    /\ UNCHANGED <<dpc, playlist_urls, seen, caught>>

\* _download_single_playlist returns or raises in its process (lines 33-34
\* and 56 are outside its handlers).
JobEnd(j) ==
    /\ DispatchOnly
    /\ futures[j].state = "running"
    /\ \E out \in {"returned", "raised"} :
         futures' = [futures EXCEPT ![j].state = out]
    /\ UNCHANGED <<dpc, playlist_urls, seen, caught>>

\* A collection loop without the handler: the job's exception leaves it.
CollectUnguarded(j) ==
    /\ DispatchOnly
    /\ dpc = "collect"
    /\ j \in Finished \ seen
    /\ seen' = seen \cup {j}
    /\ dpc' = IF futures[j].state = "raised" THEN "raised" ELSE dpc
    /\ UNCHANGED <<playlist_urls, futures, caught>>
\* lines 75-79: as_completed hands over a finished job; future.result()
\* re-raises the job's exception, which is caught and printed.
Collect(j) ==
    /\ DispatchOnly
    /\ dpc = "collect"
    /\ j \in Finished \ seen
    /\ seen' = seen \cup {j}
    /\ caught' = IF futures[j].state = "raised" THEN caught \cup {j} ELSE caught
    /\ UNCHANGED <<dpc, playlist_urls, futures>>

\* line 68: the loop is over (every job was handed over); leaving the with
\* block shuts the pool down, waiting for its jobs, and the method returns.
LeavePool ==
    /\ DispatchOnly
    /\ dpc = "collect"
    /\ seen = JobIds
    /\ Finished = JobIds
    /\ dpc' = "returned"
    /\ UNCHANGED <<playlist_urls, futures, seen, caught>>

NextDispatch ==
    \/ Submit
    \/ StartCollecting
    \/ \E j \in JobIds : JobStart(j)
    \/ \E j \in JobIds : JobEnd(j)
    \/ \E j \in JobIds : Collect(j)
    \/ LeavePool

----------------------------------------------------------------------------
(***************************************************************************)
(* The start of one download_song call, with its strings spelled out:      *)
(* youtube_downloader.py lines 84-95, _fetch_lyrics, _get_safe_filename    *)
(***************************************************************************)
\* Bounds
MaxTitleLen == 2
MaxArtistLen == 1

\* The characters of titles and artist names: the nine the file name must
\* not keep, and two it keeps.
NameChars == {"\\", "/", "*", "?", ":", "\"", "<", ">", "|", "a", "b"}
NoLyrics == [o |-> "not_called", r |-> [calls |-> <<>>, text |-> "", raised |-> FALSE]]

InitSong ==
    /\ mpc = "metadata"
    /\ msong \in [title : SeqsUpTo(NameChars, MaxTitleLen),
                  artist : SeqsUpTo(NameChars, MaxArtistLen),
                  videoId : BOOLEAN]
    /\ mlyrics = NoLyrics
    /\ mfile = <<>>

\* download_song, lines 85-90: the metadata record, whose lyrics entry is
\* the value of _fetch_lyrics(song.get('videoId')).
SongMetadata ==
    /\ SongOnly
    /\ mpc = "metadata"
    /\ \E o \in LyricsOutcomes :
         LET r == fetch_lyrics(msong.videoId, o)
         IN /\ mlyrics' = [o |-> o, r |-> r]
            /\ mpc' = IF r.raised THEN "raised" ELSE "filename"
    /\ UNCHANGED <<msong, mfile>>

\* download_song, line 94: the expected file name.
SongFilename ==
    /\ SongOnly
    /\ mpc = "filename"
    /\ mfile' = get_safe_filename(msong.title, msong.artist)
    /\ mpc' = "check"
    /\ UNCHANGED <<msong, mlyrics>>

NextSong ==
    \/ SongMetadata
    \/ SongFilename

----------------------------------------------------------------------------
(***************************************************************************)
(* _download_single_playlist: spotilocal.py lines 21-59                    *)
(***************************************************************************)
\* Bounds
MaxTracks == 3
Threads == 2

InitPlaylist ==
    /\ ppc = "scrape"
    /\ extracted_tracks = <<>>
    /\ track_tasks = <<>>

TaskNums == 1..Len(track_tasks)
RunningTasks == {i \in TaskNums : track_tasks[i].state = "running"}

\* lines 37-42: scrape_playlist returns its list, or raises (then the
\* function prints and returns).
ScrapeReturns ==
    /\ PlaylistOnly
    /\ ppc = "scrape"
    /\ \/ /\ \E tr \in SeqsUpTo(TrackIds, MaxTracks) : extracted_tracks' = tr
          /\ ppc' = "map"
       \/ /\ extracted_tracks' = extracted_tracks
          /\ ppc' = "scrape_failed"
    /\ UNCHANGED track_tasks

\* line 57: executor.map submits download_song once for each entry of
\* extracted_tracks, in order.
MapSubmit ==
    /\ PlaylistOnly
    /\ ppc = "map"
    /\ Len(track_tasks) < Len(extracted_tracks)
    /\ track_tasks' =
         Append(track_tasks, [track |-> extracted_tracks[Len(track_tasks) + 1],
                              state |-> "pending", calls |-> 0, caught |-> FALSE])
    /\ UNCHANGED <<ppc, extracted_tracks>>

\* line 57: map has returned (its result is dropped); the with block ends.
MapReturns ==
    /\ PlaylistOnly
    /\ ppc = "map"
    /\ Len(track_tasks) = Len(extracted_tracks)
    /\ ppc' = "shutdown"
    /\ UNCHANGED <<extracted_tracks, track_tasks>>

\* A thread of the pool takes a pending task: the inner download_song, up to
\* its call of the downloader (lines 45-49).
TaskStart(i) ==
    /\ PlaylistOnly
    /\ track_tasks[i].state = "pending"
    /\ Cardinality(RunningTasks) < Threads
    /\ track_tasks' = [track_tasks EXCEPT ![i].state = "running"]
    /\ UNCHANGED <<ppc, extracted_tracks>>

\* lines 50-53: download_song_with_retries is called; if it raises, the
\* exception is caught and printed; the task returns.
TaskDownload(i) ==
    /\ PlaylistOnly
    /\ track_tasks[i].state = "running"
    /\ \E out \in {"returned", "raised"} :
         track_tasks' = [track_tasks EXCEPT ![i].state = "returned",
                                            ![i].calls = @ + 1,
                                            ![i].caught = (out = "raised")]
    /\ UNCHANGED <<ppc, extracted_tracks>>

\* A pool left without waiting for its tasks.
PoolExitNoWait == TRUE
\* line 56: leaving the with block is executor.shutdown(wait=True).
PoolExitWaits == \A i \in TaskNums : track_tasks[i].state = "returned"

\* line 59: "Finished downloading playlist".
ReportFinished ==
    /\ PlaylistOnly
    /\ ppc = "shutdown"
    /\ PoolExitWaits
    /\ ppc' = "finished"
    /\ UNCHANGED <<extracted_tracks, track_tasks>>

NextPlaylist ==
    \/ ScrapeReturns
    \/ MapSubmit
    \/ MapReturns
    \/ \E i \in TaskNums : TaskStart(i)
    \/ \E i \in TaskNums : TaskDownload(i)
    \/ ReportFinished

----------------------------------------------------------------------------
(***************************************************************************)
(* Specifications                                                          *)
(***************************************************************************)
\* A component that is not running.
IdleScraper ==
    /\ scraper = ScraperInit /\ page = <<>> /\ spc = "off" /\ tracks = <<>>
    /\ result = NotReturned /\ stages = <<>>
IdleRetry ==
    /\ rpc = "off" /\ attempt = 0 /\ max_retries = 0 /\ limit = 0
    /\ events = <<>> /\ rret = "off"
IdlePool ==
    /\ tpc = <<>> /\ song = <<>> /\ fs = {} /\ net = <<>> /\ transcodes = <<>>
    /\ writes = <<>> /\ failed = <<>> /\ tret = <<>> /\ aret = <<>>
IdleQuery ==
    /\ qpc = "off" /\ row = <<>> /\ track = NoTrack /\ query = <<>>

IdleDirect == calls = <<>>
IdleDispatch ==
    /\ dpc = "off" /\ playlist_urls = <<>> /\ futures = <<>> /\ seen = {}
    /\ caught = {}
IdlePlaylist == ppc = "off" /\ extracted_tracks = <<>> /\ track_tasks = <<>>
IdleSong == mpc = "off" /\ msong = <<>> /\ mlyrics = <<>> /\ mfile = <<>>
\* The components the four first specifications leave alone.
IdleOrchestration == IdleDirect /\ IdleDispatch /\ IdlePlaylist /\ IdleSong

InitScrape ==
    InitScraper /\ IdleRetry /\ IdlePool /\ IdleQuery /\ IdleOrchestration
SpecScrape == InitScrape /\ [][NextScrape]_vars

InitR ==
    IdleScraper /\ InitRetry /\ IdlePool /\ IdleQuery /\ IdleOrchestration
SpecRetry == InitR /\ [][NextRetry]_vars
\* The function runs in one thread that is never held back for ever: every
\* step that can be taken is taken.
FairSpecRetry == SpecRetry /\ WF_vars(NextRetry)

\* The same function, called with any max_retries.
InitRAny ==
    IdleScraper /\ InitRetryAny /\ IdlePool /\ IdleQuery /\ IdleOrchestration
SpecRetryAny == InitRAny /\ [][NextRetry]_vars
FairSpecRetryAny == SpecRetryAny /\ WF_vars(NextRetry)

InitP ==
    IdleScraper /\ IdleRetry /\ InitPool /\ IdleQuery /\ IdleOrchestration
SpecPool == InitP /\ [][NextPool]_vars

InitQ ==
    IdleScraper /\ IdleRetry /\ IdlePool /\ InitQuery /\ IdleOrchestration
SpecQuery == InitQ /\ [][NextQuery]_vars

InitD ==
    /\ IdleScraper /\ IdleRetry /\ IdlePool /\ IdleQuery /\ IdleDirect
    /\ InitDispatch /\ IdlePlaylist /\ IdleSong
SpecDispatch == InitD /\ [][NextDispatch]_vars

InitS ==
    /\ IdleScraper /\ IdleRetry /\ IdlePool /\ IdleQuery /\ IdleDirect
    /\ IdleDispatch /\ IdlePlaylist /\ InitSong
SpecSong == InitS /\ [][NextSong]_vars

\* A scraper object used either way: through scrape_playlist, or method by
\* method.
InitScraperObject ==
    /\ (InitScraper \/ InitDirect)
    /\ IdleRetry /\ IdlePool /\ IdleQuery /\ IdleOrchestration
SpecScraper == InitScraperObject /\ [][NextScrape \/ NextDirect]_vars

InitPl ==
    /\ IdleScraper /\ IdleRetry /\ IdlePool /\ IdleQuery /\ IdleDirect
    /\ IdleDispatch /\ InitPlaylist /\ IdleSong
SpecPlaylist == InitPl /\ [][NextPlaylist]_vars

----------------------------------------------------------------------------
(***************************************************************************)
(* Properties                                                              *)
(***************************************************************************)

\* ---- helpers of the properties
\* The tasks that wrote (exported to) final path p, in order.
Writers(p) == {writes[i].task : i \in {j \in 1..Len(writes) : writes[j].path = p}}
\* The entries a page's well-formed rows stand for, in page order.
WellFormedIds(rows) ==
    LET good == SelectSeq(rows, LAMBDA r : r.ok)
    IN [i \in 1..Len(good) |-> good[i].id]
NumWellFormed(rows) == Cardinality({i \in 1..Len(rows) : rows[i].ok})
NumMalformed(rows) == Cardinality({i \in 1..Len(rows) : ~rows[i].ok})
LastEvent == events[Len(events)]
\* The stages scrape_playlist has entered.
DoneStages == {stages[i] : i \in 1..Len(stages)}
\* A failure that is not a connection failure, from the search or the download.
IsOtherFailure(e) ==
    \/ e.kind = "search" /\ e.out = "other"
    \/ e.kind = "download" /\ e.out = "error"

\* C1 (SpecPool). A task whose expected file was there before any task wrote
\* it, and which therefore returned the "already exists" marker, made no
\* network call and no transcode.
C1_ExistingFileNoNetwork ==
    \A t \in TaskIds :
        (tret[t] = "exists" /\ Writers(Path(t)) = {})
            => (net[t] = <<>> /\ transcodes[t] = 0)

\* C2 (SpecQuery). The query handed to download_song_with_retries is the
\* scraped song name, ", ", and the artist names joined by ", ", each artist
\* name intact.
C2_QueryIsNameThenArtists ==
    qpc = "searched" =>
        query = Strip(row.song) \o Sep
                \o Join([i \in 1..Len(row.links) |-> Strip(row.links[i])], Sep)

\* C3 (SpecPool). Nothing but a file that exists turns a task away, and no
\* task at work on a path keeps another from it: (a) a task returns "already
\* exists" only for a file that is there; (b) whenever the file is absent, a
\* task at the check can pass it, whatever stage the other tasks are in;
\* (c) a task holding its temporary download can export to the final path
\* whether or not that path has been written meanwhile; (d) every task whose
\* transcode succeeded has written its path.
C3_CheckThenWriteNotAtomic ==
    \A t \in TaskIds :
        /\ tret[t] = "exists" => Path(t) \in fs
        /\ (tpc[t] = "check" /\ Path(t) \notin fs)
               => ENABLED (CheckExists(t) /\ tpc'[t] = "resolve")
        /\ (tpc[t] = "convert" /\ TempName(Path(t)) \in fs)
               => ENABLED (Convert(t) /\ tpc'[t] = "tag" /\ Len(writes') = Len(writes) + 1)
        /\ (tpc[t] = "tag" \/ failed[t] = "tagsave"
              \/ (tpc[t] = "done" /\ tret[t] = "success" /\ failed[t] = "none"))
               => t \in Writers(Path(t))

\* C3 witness: two tasks with the same destination both passed the check and
\* both wrote that path, the second over the first.
C3_BothWrote ==
    \E t \in TaskIds, u \in TaskIds :
        /\ t # u /\ Path(t) = Path(u)
        /\ song[t].title # song[u].title
        /\ \E i \in 1..Len(writes), j \in 1..Len(writes) :
             i < j /\ writes[i].task = t /\ writes[j].task = u
        /\ tret[t] = "success" /\ tret[u] = "success"

\* C4 (SpecPool). A task whose transcode or tag save failed ends as failed:
\* download_song raises instead of returning its normal result.
C4_FailedStageFailsTask ==
    \A t \in TaskIds :
        (tpc[t] = "done" /\ failed[t] \in {"transcode", "tagsave"})
            => tret[t] = "raised"

C6_BoundedRetries ==
    /\ <>(rpc = "done")
    /\ [](Count("search") <= max_retries)
    /\ [](rpc = "done" => rret = "returned")
    /\ []((rpc = "done" /\ CountOut("search", "conn") = Count("search"))
            => (Count("search") = max_retries /\ Count("download") = 0))

\* C6 witness: three connection failures with max_retries = 3, then the
\* normal return.
C6_Exhausted ==
    /\ rpc = "done" /\ rret = "returned" /\ max_retries = 3
    /\ CountOut("search", "conn") = 3 /\ Count("download") = 0

\* C7 (SpecRetry). A failure that is no connection failure is the last thing
\* that happens: no search or sleep follows it and the call has returned.
C7_OtherFailureEndsCall ==
    \A i \in 1..Len(events) :
        IsOtherFailure(events[i])
            => (i = Len(events) /\ rpc = "done" /\ rret = "returned")

\* C7 witness: after a retried connection failure, a download that raised.
C7_DownloadRaised ==
    /\ rpc = "done" /\ Len(events) >= 4
    /\ events[1].out = "conn"
    /\ LastEvent.kind = "download" /\ LastEvent.out = "error"

\* C8 (SpecScrape). scrape_playlist never propagates an exception: it returns
\* the extracted tracks when setup, load, zoom and extraction all succeeded,
\* and [] when any of them, or the teardown after a failed stage, failed.
C8_NeverPropagates ==
    spc = "done" =>
        /\ result.kind = "list"
        /\ result.value = IF "extracted" \in DoneStages
                          THEN WellFormedIds(page) ELSE <<>>

C10_OnlyWellFormedRows ==
    /\ (spc = "extract" /\ scraper.driver # NoDriver) =>
         \A qok \in BOOLEAN :
            LET r == extract_tracks(scraper, page, TRUE, qok)
            IN /\ ~r.s.raised
               /\ r.tracks = WellFormedIds(page)
               /\ Len(r.tracks) = NumWellFormed(page)
               /\ r.s.driver = scraper.driver
               /\ r.s.quits = scraper.quits
    /\ (spc = "finally" /\ "extracted" \in DoneStages) =>
         /\ tracks = WellFormedIds(page)
         /\ Len(tracks) = Len(page) - NumMalformed(page)
         /\ result = Returned(tracks)
         /\ scraper.driver # NoDriver
         /\ scraper.quits[scraper.driver] = 0

\* C10 witness: a page of two well-formed rows around a malformed one has
\* been extracted to two entries.
C10_MixedPage ==
    /\ spc = "finally" /\ "extracted" \in DoneStages
    /\ Len(page) = 3 /\ page[1].ok /\ ~page[2].ok /\ page[3].ok
    /\ page[1].id # page[3].id
    /\ tracks = <<page[1].id, page[3].id>>

\* C11 (SpecPool). download_audio never raises to its caller: when no audio
\* stream is found, or the download, the transcode or the tag save fails, it
\* returns None; it returns the final file path only when every stage it ran
\* succeeded (the stream was downloaded, the transcode wrote the final path,
\* the tags were saved). A call that has ended returned one of the two.
C11_AudioReturnsNoneOrPath ==
    \A t \in TaskIds :
        /\ aret[t] # "raised"
        /\ failed[t] \in {"stream", "transcode", "tagsave"} => aret[t] = "None"
        /\ aret[t] = "mp3_file" =>
              /\ failed[t] = "none"
              /\ net[t][Len(net[t])] = "thumbnail"
              /\ transcodes[t] = 1
              /\ t \in Writers(Path(t))
        /\ (tpc[t] = "done" /\ tret[t] # "exists") =>
              aret[t] \in {"None", "mp3_file"}
        /\ aret[t] = "not_called" <=>
              (tpc[t] \in {"start", "check", "resolve", "convert", "tag"}
                 \/ tret[t] = "exists")

\* C11 witness: of two calls one returned None after a failed tag save, the
\* other the path.
C11_NoneAndPath ==
    \E t, u \in TaskIds :
        /\ failed[t] = "tagsave" /\ aret[t] = "None"
        /\ aret[u] = "mp3_file"

\* C12 (SpecDispatch). download_multiple_playlists starts one job for each
\* playlist URL, in list order, and no job runs twice; it never raises; when
\* it has returned every job has run once and has finished, whether it
\* returned or raised, every raised job's exception was caught by the
\* collection loop and no other was.
C12_EveryJobRunsFailuresCaught ==
    /\ Len(futures) <= Len(playlist_urls)
    /\ \A j \in JobIds : futures[j].url = playlist_urls[j] /\ futures[j].runs <= 1
    /\ dpc \in {"collect", "returned"} => Len(futures) = Len(playlist_urls)
    /\ dpc # "raised"
    /\ caught \subseteq {j \in JobIds : futures[j].state = "raised"}
    /\ dpc = "returned" =>
         /\ \A j \in 1..Len(playlist_urls) :
               /\ futures[j].runs = 1
               /\ futures[j].state \in {"returned", "raised"}
         /\ caught = {j \in JobIds : futures[j].state = "raised"}

\* C12 witness: three playlists, the first job raised, the two others ran and
\* returned, and the method has returned.
C12_OneJobFailedOthersRan ==
    /\ dpc = "returned"
    /\ Len(playlist_urls) = 3
    /\ futures[1].state = "raised" /\ caught = {1}
    /\ futures[2].state = "returned" /\ futures[3].state = "returned"

\* ---- helpers of C13
\* The nine characters the claim names.
NineCharacters == {"\\", "/", "*", "?", ":", "\"", "<", ">", "|"}
\* s with those characters removed and every other character kept, in order.
Kept(s) == SelectSeq(s, LAMBDA c : c \notin NineCharacters)

\* C13 (SpecSong). For every title and artist, the file name made by
\* _get_safe_filename holds none of the nine characters \ / * ? : " < > |
\* and is the title without them, " - ", the artist without them, ".mp3".
C13_SafeFilename ==
    mpc = "check" =>
       /\ \A i \in 1..Len(mfile) : mfile[i] \notin NineCharacters
       /\ mfile = Kept(msong.title) \o <<" ", "-", " ">> \o Kept(msong.artist)
                    \o <<".", "m", "p", "3">>
       /\ Len(mfile) =
            7 + Cardinality({i \in 1..Len(msong.title) :
                               msong.title[i] \notin NineCharacters})
              + Cardinality({i \in 1..Len(msong.artist) :
                               msong.artist[i] \notin NineCharacters})

\* C13 witness: the title "b|" by the artist "?" is filed as "b - .mp3".
C13_BarAndQuestionMarkRemoved ==
    /\ mpc = "check"
    /\ msong.title = <<"b", "|">>
    /\ msong.artist = <<"?">>
    /\ mfile = <<"b", " ", "-", " ", ".", "m", "p", "3">>

\* C14 (SpecSong). _fetch_lyrics never raises, and returns the empty string
\* when the track id is absent (no lookup call made), when the watch
\* playlist has no lyrics reference (get_lyrics not called), and when either
\* lookup raises.
C14_LyricsBestEffort ==
    mpc # "metadata" =>
       /\ mpc # "raised"
       /\ ~mlyrics.r.raised
       /\ ~msong.videoId =>
             mlyrics.r.text = "" /\ mlyrics.r.calls = <<>>
       /\ (msong.videoId /\ mlyrics.o = "no_ref") =>
             mlyrics.r.text = "" /\ mlyrics.r.calls = <<"get_watch_playlist">>
       /\ (msong.videoId /\ mlyrics.o = "watch_error") =>
             mlyrics.r.text = "" /\ mlyrics.r.calls = <<"get_watch_playlist">>
       /\ (msong.videoId /\ mlyrics.o = "lyrics_error") =>
             /\ mlyrics.r.text = ""
             /\ mlyrics.r.calls = <<"get_watch_playlist", "get_lyrics">>

\* C14 witness: get_lyrics raised and the song's lyrics are the empty string.
C14_LyricsFetchFailed ==
    /\ mpc = "check"
    /\ msong.videoId /\ mlyrics.o = "lyrics_error"
    /\ mlyrics.r.text = ""

\* C15 (SpecScraper). load_playlist, adjust_zoom or extract_tracks, called
\* on an initialised driver, whose stage fails: the method ends by raising,
\* and by then quit() has been invoked on the driver and self.driver is
\* None. Stated of the call about to be made on every scraper that holds a
\* driver, for a quit() that returns and for one that raises.
C15_FailedStageTearsDown ==
    scraper.driver # NoDriver =>
       \A qok \in BOOLEAN :
          \A s2 \in {load_playlist(scraper, FALSE, qok),
                     adjust_zoom(scraper, FALSE, qok),
                     extract_tracks(scraper, page, FALSE, qok).s} :
             /\ s2.raised
             /\ s2.quits[scraper.driver] = scraper.quits[scraper.driver] + 1
             /\ s2.driver = NoDriver

\* ---- helper of C16
\* The stages before closed, in the order of the claim.
StageOrder == <<"idle", "driver-ready", "page-loaded", "zoomed", "extracted">>

\* C16 (SpecScrape). Every execution of scrape_playlist enters the stages in
\* the order idle, driver-ready, page-loaded, zoomed, extracted, closed: the
\* stages entered are a beginning of that list, none twice, possibly followed
\* by closed; a stage is entered only when every earlier one succeeded (the
\* driver is held and the last call did not raise); and every execution that
\* has ended, with success or failure, ended in closed.
C16_StagesInOrderClosedLast ==
    /\ \E k \in 1..Len(StageOrder) :
          \/ stages = SubSeq(StageOrder, 1, k)
          \/ stages = Append(SubSeq(StageOrder, 1, k), "closed")
    /\ spc \in {"load", "zoom", "extract"} =>
          /\ scraper.driver # NoDriver /\ ~scraper.raised
          /\ stages[Len(stages)] # "closed"
    /\ spc = "done" => stages[Len(stages)] = "closed"

\* C17 (SpecPlaylist). In _download_single_playlist there is one task for
\* each scraped track, in order, and each task calls
\* download_song_with_retries at most once; when the playlist is reported
\* finished every track has its task, every task has returned and has made
\* its call exactly once, also when other tasks' calls raised; a scrape that
\* yields no tracks, or fails, starts no task.
C17_OneCallPerTrackThenFinished ==
    /\ Len(track_tasks) <= Len(extracted_tracks)
    /\ \A i \in TaskNums :
          /\ track_tasks[i].track = extracted_tracks[i]
          /\ track_tasks[i].calls <= 1
          /\ track_tasks[i].state = "returned" <=> track_tasks[i].calls = 1
    /\ ppc = "finished" =>
          /\ Len(track_tasks) = Len(extracted_tracks)
          /\ \A i \in 1..Len(extracted_tracks) :
                track_tasks[i].state = "returned" /\ track_tasks[i].calls = 1
    /\ extracted_tracks = <<>> => track_tasks = <<>>
    /\ ppc = "scrape_failed" => track_tasks = <<>>

\* C17 witness: three tracks; the first task's call raised, the two others
\* ran their call all the same, and the playlist is reported finished.
C17_OneTaskFailedAllRan ==
    /\ ppc = "finished"
    /\ Len(extracted_tracks) = 3
    /\ track_tasks[1].caught /\ ~track_tasks[2].caught /\ ~track_tasks[3].caught
    /\ \A i \in 1..3 : track_tasks[i].calls = 1

\* C18 (SpecRetry). The backoff sleeps of download_song_with_retries occur
\* only between attempts: in a call that has ended every sleep is followed
\* by another search, and a call that made n >= 1 searches slept n - 1 times.
C18_SleepsOnlyBetweenAttempts ==
    rpc = "done" =>
       /\ \A i \in 1..Len(events) :
             events[i].kind = "sleep" =>
                i < Len(events) /\ events[i + 1].kind = "search"
       /\ Count("search") >= 1 => Count("sleep") = Count("search") - 1

\* C19 (SpecScraper). Whether the scraper is used through scrape_playlist or
\* method by method, quit() is invoked at most once on each browser driver
\* launched.
C19_QuitAtMostOnce ==
    \A b \in 1..Len(scraper.quits) : scraper.quits[b] <= 1

\* ---- helpers of C20
\* Task t failed after its export had created the final path: the transcode
\* left a truncated file, or the tag save failed after the transcode.
LeftBrokenFile(t) ==
    /\ failed[t] \in {"transcode", "tagsave"}
    /\ t \in Writers(Path(t))
\* A download_song that has not made its existence check yet.
NotYetChecked(u) == tpc[u] \in {"start", "check"}
\* The number of exports made to path p.
ExportsTo(p) == Cardinality({i \in 1..Len(writes) : writes[i].path = p})
\* A step keeps every final file there is.
FinalFilesStay == \A t \in TaskIds : Path(t) \in fs => Path(t) \in fs'
\* A step makes no export to the path of a broken file.
BrokenFileNotRewritten ==
    \A t \in TaskIds : LeftBrokenFile(t) => ExportsTo(Path(t))' = ExportsTo(Path(t))
\* A download_song for a broken file's name that checks after the failure
\* can only end as "already exists", without calling download_audio.
LaterCallSkips ==
    \A t, u \in TaskIds :
        (LeftBrokenFile(t) /\ Path(u) = Path(t) /\ NotYetChecked(u)) =>
            \/ NotYetChecked(u)'
            \/ /\ tpc'[u] = "done" /\ tret'[u] = "exists"
               /\ aret'[u] = "not_called" /\ transcodes'[u] = 0
               /\ fs' = fs /\ writes' = writes

\* C20, as amended (SpecPool). Once a download task has failed after the
\* final output path was created, the path exists from then on, and every
\* download_song for the same sanitized (title, artist) that makes its
\* existence check afterwards returns "already exists" and does not download
\* again, so that none of them repairs or replaces the file.
C20_BrokenFileBlocksLaterCalls ==
    /\ [](\A t \in TaskIds : LeftBrokenFile(t) => Path(t) \in fs)
    /\ [][FinalFilesStay /\ LaterCallSkips]_vars

\* C20 witness: a task's tag save failed after its export; the other task,
\* for the same name, found the file and returned "already exists"; the
\* broken file is the only export ever made to the path.
C20_BrokenFileSkipped ==
    \E t, u \in TaskIds :
        /\ t # u /\ Path(t) = Path(u)
        /\ failed[t] = "tagsave" /\ LeftBrokenFile(t)
        /\ tpc[u] = "done" /\ tret[u] = "exists"
        /\ Writers(Path(t)) = {t} /\ ExportsTo(Path(t)) = 1

\* C20, as stated (SpecPool). Once a download task has failed after the final
\* output path was created, that file is never repaired or replaced, and
\* every later download_song for the name returns "already exists" without
\* downloading.
C20_BrokenFileNeverReplaced ==
    [][BrokenFileNotRewritten /\ LaterCallSkips]_vars

\* ---- helpers of C21
StageMethods == {"load_playlist", "adjust_zoom", "extract_tracks"}
\* A step in which a stage method is called on a scraper that holds no driver.
StageCalledWithoutDriver ==
    /\ Len(calls') = Len(calls) + 1
    /\ calls'[Len(calls')] \in StageMethods
    /\ scraper.driver = NoDriver

\* C21 (SpecScraper). load_playlist, adjust_zoom and extract_tracks called
\* on a scraper that holds no driver raise, make no call on any browser
\* (no action, no quit, no launch) and leave the scraper as it was, the
\* driver still None; extract_tracks returns no list. Stated of the call
\* about to be made, whatever the browser would have answered, and of every
\* such call made.
C21_NoDriverNoAction ==
    /\ [](scraper.driver = NoDriver =>
            \A ok \in BOOLEAN, qok \in BOOLEAN :
               /\ \A s2 \in {load_playlist(scraper, ok, qok),
                             adjust_zoom(scraper, ok, qok),
                             extract_tracks(scraper, page, ok, qok).s} :
                     /\ s2.raised
                     /\ s2.driver = NoDriver
                     /\ s2.actions = scraper.actions
                     /\ s2.quits = scraper.quits
                     /\ s2.running = scraper.running
                     /\ s2.quitRaised = scraper.quitRaised
               /\ extract_tracks(scraper, page, ok, qok).tracks = <<>>)
    /\ [][StageCalledWithoutDriver =>
            scraper' = [scraper EXCEPT !.raised = TRUE]]_vars

\* C21 witness: after setup_driver and a load_playlist whose handler quit the
\* browser, adjust_zoom was called: it raised, and the one browser has had
\* its two actions (set_window_size, get) and its one quit, no more.
C21_ZoomAfterFailedLoad ==
    /\ calls = <<"setup_driver", "load_playlist", "adjust_zoom">>
    /\ scraper.raised /\ scraper.driver = NoDriver
    /\ scraper.quits = <<1>> /\ scraper.running = <<FALSE>>
    /\ scraper.actions = 2

\* C22 (FairSpecRetryAny). download_song_with_retries called with
\* max_retries <= 0 makes no search, no sleep and no download, never raises,
\* and returns normally.
C22_NoAttemptWithoutRetries ==
    /\ [](max_retries <= 0 =>
            /\ events = <<>>
            /\ Count("search") = 0 /\ Count("sleep") = 0 /\ Count("download") = 0
            /\ attempt = 0
            /\ rret \in {"running", "returned"}
            /\ rpc = "done" => rret = "returned")
    /\ (max_retries <= 0) ~> (rpc = "done" /\ rret = "returned")

\* C22 witness: a call with max_retries = -1 has returned, having done nothing.
C22_NegativeRetriesReturned ==
    /\ max_retries < 0
    /\ rpc = "done" /\ rret = "returned"
    /\ events = <<>>

====
